---------------------------- MODULE Spec2Model ----------------------------
(***************************************************************************)
(* A model of the send-note plugin: the chunk cipher (src/src/crypto.ts),  *)
(* the share-link codec (src/src/api.ts, getIdentifier in the plugin's     *)
(* main file) and the share / delete / receive workflows (src/src/note.ts  *)
(* and the two variants of the plugin's main file, src/unnamed/part_002    *)
(* for the paste service and src/unnamed/part_003 for object storage).     *)
(*                                                                         *)
(* Strings.  A JavaScript string is a sequence of UTF-16 code units.  The  *)
(* model writes a string as a record [pad |-> n, tail |-> t]: n copies of  *)
(* the code unit "a" followed by the code units of the sequence t, where t *)
(* does not start with "a" (so that equal strings are equal records).  The *)
(* operators below (StrLen, Slice, Concat, ...) are the string operations  *)
(* of the source on that representation; a 2000-unit chunk of "a"s is      *)
(* [pad |-> 2000, tail |-> <<>>] instead of a 2000-element tuple.          *)
(***************************************************************************)
EXTENDS Integers, Sequences, FiniteSets, TLC

Min(a, b) == IF a < b THEN a ELSE b
Max(a, b) == IF a > b THEN a ELSE b

PadChar == "a"

\* n copies of "a" as a plain sequence.
Rep(n) == [i \in 1..n |-> PadChar]

\* The number of leading "a"s of the sequence t.
LeadingPads(t) ==
  LET other == {i \in 1..Len(t) : t[i] # PadChar}
  IN  IF other = {} THEN Len(t)
      ELSE (CHOOSE i \in other : \A j \in other : i <= j) - 1

\* The string of n "a"s followed by t, in the representation's normal form.
Str(n, t) ==
  LET k == LeadingPads(t)
  IN  [pad |-> n + k, tail |-> SubSeq(t, k + 1, Len(t))]

EmptyStr == [pad |-> 0, tail |-> <<>>]

FromSeq(t) == Str(0, t)

Expand(s) == Rep(s.pad) \o s.tail

\* String.prototype.length: the number of UTF-16 code units.
StrLen(s) == s.pad + Len(s.tail)

\* The code unit at 0-based index i.
CharAt(s, i) == IF i < s.pad THEN PadChar ELSE s.tail[i - s.pad + 1]

\* String.prototype.slice(from, to) for 0 <= from, to: the code units at
\* indices from .. to-1, both ends clamped to the length.
Slice(s, from, to) ==
  LET e == Min(to, StrLen(s))
      b == Min(from, e)
      p == Max(0, Min(e, s.pad) - b)
  IN  Str(p, SubSeq(s.tail, Max(b - s.pad, 0) + 1, e - s.pad))

\* String concatenation.
Concat(s, t) ==
  IF s.tail = <<>> THEN [pad |-> s.pad + t.pad, tail |-> t.tail]
  ELSE [pad |-> s.pad, tail |-> s.tail \o Rep(t.pad) \o t.tail]

(***************************************************************************)
(* Code units.  "a", "b": ASCII letters.  "u00E9": a BMP character whose   *)
(* UTF-8 form has two bytes.  "uD83D", "uDE00": the high and the low       *)
(* surrogate of the non-BMP character U+1F600.  "uFEFF": the byte order     *)
(* mark.  "uFFFD": the replacement character.                              *)
(***************************************************************************)
HighSurrogate == "uD83D"
LowSurrogate == "uDE00"
ByteOrderMark == "uFEFF"
Replacement == "uFFFD"

(***************************************************************************)
(* new TextEncoder().encode(s): the UTF-8 bytes of s after the conversion  *)
(* of s to a sequence of Unicode scalar values, in which every surrogate   *)
(* that is not part of a high-low pair becomes U+FFFD.  UTF-8 is one-to-one *)
(* on scalar values, so the byte array is written as the scalar values (a  *)
(* pair keeps its two code units).                                         *)
(***************************************************************************)
TextEncoderEncode(s) ==
  LET t == s.tail
      Paired(i) ==
        \/ t[i] = HighSurrogate /\ i < Len(t) /\ t[i + 1] = LowSurrogate
        \/ t[i] = LowSurrogate /\ i > 1 /\ t[i - 1] = HighSurrogate
  IN  [pad |-> s.pad,
       tail |-> [i \in 1..Len(t) |->
                   IF t[i] \in {HighSurrogate, LowSurrogate} /\ ~Paired(i)
                   THEN Replacement ELSE t[i]]]

\* new TextDecoder().decode(bytes) of well-formed UTF-8: the characters of
\* the bytes, without a leading byte order mark (ignoreBOM is false).
TextDecoderDecode(bytes) ==
  IF bytes.pad = 0 /\ bytes.tail # <<>> /\ bytes.tail[1] = ByteOrderMark
  THEN Str(0, Tail(bytes.tail))
  ELSE bytes

(***************************************************************************)
(* Base64.  A byte buffer is written as its base64 text without padding    *)
(* characters: the text whose unused low bits in the last character are    *)
(* zero.  base64ToArrayBuffer is the platform's forgiving decoder: it      *)
(* accepts text without padding and drops the unused low bits.             *)
(***************************************************************************)
B64Alphabet ==
  << "A","B","C","D","E","F","G","H","I","J","K","L","M","N","O","P",
     "Q","R","S","T","U","V","W","X","Y","Z","a","b","c","d","e","f",
     "g","h","i","j","k","l","m","n","o","p","q","r","s","t","u","v",
     "w","x","y","z","0","1","2","3","4","5","6","7","8","9","+","/" >>

B64Chars == {B64Alphabet[i] : i \in 1..64}

B64Index(c) == (CHOOSE i \in 1..64 : B64Alphabet[i] = c) - 1

\* The character c with its `drop` low bits cleared.
B64Mask(c, drop) ==
  LET unit == IF drop = 4 THEN 16 ELSE IF drop = 2 THEN 4 ELSE 1
  IN  B64Alphabet[(B64Index(c) \div unit) * unit + 1]

\* The text without its trailing "=" padding (at most two, and only when
\* the length is a multiple of four).
StripPadding(s) ==
  LET n == StrLen(s)
      Pad1 == n >= 1 /\ CharAt(s, n - 1) = "="
      Pad2 == n >= 2 /\ Pad1 /\ CharAt(s, n - 2) = "="
  IN  IF n % 4 # 0 THEN s
      ELSE IF Pad2 THEN Slice(s, 0, n - 2)
      ELSE IF Pad1 THEN Slice(s, 0, n - 1)
      ELSE s

base64ToArrayBuffer(text) ==
  LET s == StripPadding(text)
      n == StrLen(s)
      Valid == /\ n % 4 # 1
               /\ \A i \in 1..Len(s.tail) : s.tail[i] \in B64Chars
      drop == IF n % 4 = 2 THEN 4 ELSE IF n % 4 = 3 THEN 2 ELSE 0
      last == B64Mask(CharAt(s, n - 1), drop)
  IN  IF ~Valid THEN [ok |-> FALSE, buf |-> EmptyStr]
      ELSE IF n = 0 THEN [ok |-> TRUE, buf |-> EmptyStr]
      ELSE [ok |-> TRUE, buf |-> Concat(Slice(s, 0, n - 1), FromSeq(<<last>>))]

\* The number of bytes of a buffer.
ByteLength(buf) == (StrLen(buf) * 6) \div 8

arrayBufferToBase64(buf) ==
  LET r == StrLen(buf) % 4
  IN  Concat(buf, FromSeq(IF r = 2 THEN <<"=", "=">>
                          ELSE IF r = 3 THEN <<"=">> ELSE <<>>))

masterKeyToString(masterKey) == arrayBufferToBase64(masterKey)

\* A key text that keeps the padding of the base64 text.
ReturnedKeyUnsliced(key) == masterKeyToString(key)

\* key: masterKeyToString(key).slice(0, 43)
ReturnedKey(key) == Slice(masterKeyToString(key), 0, 43)

\* crypto.subtle.importKey("raw", secret, AES-GCM): a key of 128, 192 or
\* 256 bits is imported, any other length is rejected.
AesKeyLengths == {16, 24, 32}

_getAesGcmKey(secret) == ByteLength(secret) \in AesKeyLengths

(***************************************************************************)
(* AES-GCM, symbolically: the output of encrypt under (key, iv) is a value  *)
(* that decrypt opens only under the same key and the same iv; under any   *)
(* other key or iv the tag does not verify.  A ciphertext chunk is the     *)
(* base64 text of that output, written as the record itself.               *)
(***************************************************************************)
AesGcmEncrypt(key, iv, data) == [key |-> key, iv |-> iv, data |-> data]

AesGcmVerifies(key, iv, chunk) == chunk.key = key /\ chunk.iv = iv

chunkSize == 2000

Failure(e) == [ok |-> FALSE, ciphertext |-> <<>>, key |-> EmptyStr, err |-> e]

\* A nonce that does not depend on the index.
IvOfConstant(index) == 0

\* iv[0] = index & 0xff
IvOf(index) == index % 256

\* A loop condition that stops one chunk early.
EncryptLoopStopsEarly(index, length) == (index + 1) * chunkSize < length

\* The loop condition of encryptString: index * chunkSize < length.
EncryptLoopContinues(index, length) == index * chunkSize < length

\* The number of times the loop body runs: the index at which the loop
\* condition is false for the first time (it held at the index before).
EncryptIterations(length) ==
  CHOOSE index \in 0..(length \div chunkSize + 1) :
    /\ ~EncryptLoopContinues(index, length)
    /\ index > 0 => EncryptLoopContinues(index - 1, length)

\* The loop body: the ciphertext chunk pushed at `index`.
EncryptChunk(plaintext, key, index) ==
  LET plaintextChunk == Slice(plaintext, index * chunkSize, (index + 1) * chunkSize)
      encodedText == TextEncoderEncode(plaintextChunk)
  IN  AesGcmEncrypt(key, IvOf(index), encodedText)

EncryptLoop(plaintext, key) ==
  [n \in 1..EncryptIterations(StrLen(plaintext)) |-> EncryptChunk(plaintext, key, n - 1)]

\* encryptString(plaintext, existingKey); derivedKey is the key that
\* _generateKey derives from 64 random bytes when no existing key is given.
encryptString(plaintext, existingKey, derivedKey) ==
  LET decoded == IF StrLen(existingKey) > 0
                 THEN base64ToArrayBuffer(existingKey)
                 ELSE [ok |-> TRUE, buf |-> derivedKey]
      key == decoded.buf
  IN  IF ~decoded.ok THEN Failure("KeyDecodeError")
      ELSE IF ~_getAesGcmKey(key) THEN Failure("ImportKeyError")
      ELSE [ok |-> TRUE,
            ciphertext |-> EncryptLoop(plaintext, key),
            key |-> ReturnedKey(key),
            err |-> ""]

Thrown(e) == [ok |-> FALSE, value |-> EmptyStr, err |-> e]

\* pieces.join(""): the concatenation of pieces[lo], ..., pieces[hi], taken
\* by halves (concatenation is associative).
RECURSIVE Join(_, _, _)
Join(pieces, lo, hi) ==
  IF lo > hi THEN EmptyStr
  ELSE IF lo = hi THEN pieces[lo]
  ELSE LET mid == (lo + hi) \div 2
       IN  Concat(Join(pieces, lo, mid), Join(pieces, mid + 1, hi))

\* The chunk at `index` passes crypto.subtle.decrypt under iv = index & 0xff.
DecryptChunkOk(ciphertext, key, index) ==
  AesGcmVerifies(key, IvOf(index), ciphertext[index + 1])

\* A loop that skips the chunks that do not verify instead of throwing.
DecryptLoopSkipsFailures(ciphertext, key) ==
  LET plaintext == [n \in 1..Len(ciphertext) |->
                      IF DecryptChunkOk(ciphertext, key, n - 1)
                      THEN TextDecoderDecode(ciphertext[n].data)
                      ELSE EmptyStr]
  IN  [ok |-> TRUE, value |-> Join(plaintext, 1, Len(plaintext)), err |-> ""]

\* The loop of decryptString: the first chunk that does not verify throws;
\* otherwise the decoded chunks are joined.
DecryptLoop(ciphertext, key) ==
  LET plaintext == [n \in 1..Len(ciphertext) |-> TextDecoderDecode(ciphertext[n].data)]
  IN  IF \E index \in 0..(Len(ciphertext) - 1) : ~DecryptChunkOk(ciphertext, key, index)
      THEN Thrown("DecryptionFailed")
      ELSE [ok |-> TRUE, value |-> Join(plaintext, 1, Len(plaintext)), err |-> ""]

\* decryptString(encryptedData): the plaintext, or the error thrown.
decryptString(encryptedData) ==
  LET decoded == base64ToArrayBuffer(encryptedData.key)
  IN  IF ~decoded.ok THEN Thrown("KeyDecodeError")
      ELSE IF ~_getAesGcmKey(decoded.buf) THEN Thrown("ImportKeyError")
      ELSE DecryptLoop(encryptedData.ciphertext, decoded.buf)


(***************************************************************************)
(* Share links.  A link is the sequence of its characters.                 *)
(***************************************************************************)
Letters ==
  {"A", "B", "C", "D", "E", "F", "G", "H", "I", "J", "K", "L", "M", "N",
   "O", "P", "Q", "R", "S", "T", "U", "V", "W", "X", "Y", "Z", "a", "b",
   "c", "d", "e", "f", "g", "h", "i", "j", "k", "l", "m", "n", "o", "p",
   "q", "r", "s", "t", "u", "v", "w", "x", "y", "z"}

Digits == {"0", "1", "2", "3", "4", "5", "6", "7", "8", "9"}

\* \w of a regular expression without the u and i flags.
WordChars == Letters \cup Digits \cup {"_"}

\* The characters "." of a regular expression does not match.
LineTerminators == {"\n", "\r"}

\* The index of the last character of the longest run of \w characters
\* that starts at p (p - 1 when url[p] is no \w character).
RECURSIVE WordRunEnd(_, _)
WordRunEnd(url, p) ==
  IF p <= Len(url) /\ url[p] \in WordChars THEN WordRunEnd(url, p + 1) ELSE p - 1

\* /(\w+)(#.+?|)$/ matches with its first group starting at p: the run of \w
\* characters from p to e (a shorter run is followed by a \w character, which
\* neither alternative of the second group accepts) is followed by "#" and
\* one or more characters up to the end, none a line terminator, or by the
\* end of the string.
ShareUrlMatchAt(url, p, e) ==
  /\ e >= p
  /\ \/ /\ e + 2 <= Len(url)
        /\ url[e + 1] = "#"
        /\ \A i \in (e + 2)..Len(url) : url[i] \notin LineTerminators
     \/ e = Len(url)

\* The least position >= p at which the expression matches, or 0.  The
\* positions inside a run of \w characters all end the run at the same
\* place, so when the start of the run does not match, none of them does.
RECURSIVE ShareUrlMatchFrom(_, _)
ShareUrlMatchFrom(url, p) ==
  IF p > Len(url) THEN 0
  ELSE LET e == WordRunEnd(url, p)
       IN  IF ShareUrlMatchAt(url, p, e) THEN p
           ELSE ShareUrlMatchFrom(url, Max(e, p) + 1)

NoSharedUrl == [matched |-> FALSE, filename |-> <<>>, decryptionKey |-> <<>>, url |-> <<>>]

\* parseExistingShareUrl(url): url.match returns the leftmost match; the
\* result is false (matched = FALSE) when there is none.
parseExistingShareUrl(url) ==
  LET p == ShareUrlMatchFrom(url, 1)
      e == WordRunEnd(url, p)
  IN  IF p > 0
      THEN [matched |-> TRUE,
            filename |-> SubSeq(url, p, e),
            decryptionKey |-> SubSeq(url, e + 2, Len(url)),
            url |-> url]
      ELSE NoSharedUrl

\* The least index i >= from with s[i] \in cs, or Len(s) + 1.
FirstOf(s, cs, from) ==
  IF \E i \in from..Len(s) : s[i] \in cs
  THEN CHOOSE i \in from..Len(s) : s[i] \in cs /\ \A j \in from..(i - 1) : s[j] \notin cs
  ELSE Len(s) + 1

\* The greatest index i with s[i] = c, or 0.
LastIndexOf(s, c) ==
  IF \E i \in 1..Len(s) : s[i] = c
  THEN CHOOSE i \in 1..Len(s) : s[i] = c /\ \A j \in (i + 1)..Len(s) : s[j] # c
  ELSE 0

\* s.split(sep) for a one-character separator.
RECURSIVE Split(_, _)
Split(s, sep) ==
  LET i == FirstOf(s, {sep}, 1)
  IN  IF i > Len(s) THEN <<s>>
      ELSE <<SubSeq(s, 1, i - 1)>> \o Split(SubSeq(s, i + 1, Len(s)), sep)

SchemeChars == Letters \cup Digits \cup {"+", "-", "."}

SpecialSchemes == {<<"h", "t", "t", "p">>, <<"h", "t", "t", "p", "s">>, <<"f", "t", "p">>,
                   <<"w", "s">>, <<"w", "s", "s">>, <<"f", "i", "l", "e">>}

InvalidURL == [ok |-> FALSE, scheme |-> <<>>, pathname |-> <<>>, search |-> <<>>]

\* new URL(s), without a base: the scheme, the path and the query of s, or
\* the TypeError (ok = FALSE) for a string without a scheme or with a
\* special scheme and no host.  The strings parsed here hold no character
\* that the parser would escape or remove.
NewURL(s) ==
  LET colon == FirstOf(s, {":"}, 1)
      scheme == SubSeq(s, 1, colon - 1)
      hasAuthority == /\ colon + 2 <= Len(s)
                      /\ s[colon + 1] = "/"
                      /\ s[colon + 2] = "/"
      hostFrom == IF hasAuthority THEN colon + 3 ELSE colon + 1
      pathFrom == IF hasAuthority THEN FirstOf(s, {"/", "?", "#"}, hostFrom)
                  ELSE hostFrom
      pathEnd == FirstOf(s, {"?", "#"}, pathFrom)
      queryEnd == FirstOf(s, {"#"}, pathEnd)
      path == SubSeq(s, pathFrom, pathEnd - 1)
  IN  IF \/ colon > Len(s)
         \/ colon = 1
         \/ s[1] \notin Letters
         \/ \E i \in 2..(colon - 1) : s[i] \notin SchemeChars
      THEN InvalidURL
      ELSE IF scheme \in SpecialSchemes /\ (~hasAuthority \/ pathFrom = hostFrom)
      THEN InvalidURL
      ELSE [ok |-> TRUE,
            scheme |-> scheme,
            pathname |-> IF path = <<>> /\ scheme \in SpecialSchemes
                         THEN <<"/">> ELSE path,
            search |-> SubSeq(s, pathEnd + 1, queryEnd - 1)]

\* The characters that the escapes of a query stand for (the escapes that
\* the links of this model can hold).
PercentEscapes ==
  [e \in {<<"2", "0">>, <<"2", "3">>, <<"2", "5">>, <<"2", "6">>, <<"2", "B">>,
          <<"2", "F">>, <<"3", "A">>, <<"3", "D">>, <<"3", "F">>} |->
     CASE e = <<"2", "0">> -> " "
       [] e = <<"2", "3">> -> "#"
       [] e = <<"2", "5">> -> "%"
       [] e = <<"2", "6">> -> "&"
       [] e = <<"2", "B">> -> "+"
       [] e = <<"2", "F">> -> "/"
       [] e = <<"3", "A">> -> ":"
       [] e = <<"3", "D">> -> "="
       [] e = <<"3", "F">> -> "?"]

\* Percent-decoding: %XX is the character it stands for; with plusIsSpace,
\* "+" is a space.
RECURSIVE PercentDecode(_, _)
PercentDecode(s, plusIsSpace) ==
  IF s = <<>> THEN <<>>
  ELSE IF plusIsSpace /\ s[1] = "+" THEN <<" ">> \o PercentDecode(Tail(s), plusIsSpace)
  ELSE IF s[1] = "%" /\ Len(s) >= 3 /\ SubSeq(s, 2, 3) \in DOMAIN PercentEscapes
  THEN <<PercentEscapes[SubSeq(s, 2, 3)]>> \o PercentDecode(SubSeq(s, 4, Len(s)), plusIsSpace)
  ELSE <<s[1]>> \o PercentDecode(Tail(s), plusIsSpace)

\* The decoding of a name or value of URLSearchParams.
FormDecode(s) == PercentDecode(s, TRUE)

\* urlObj.searchParams.get(name): the value of the first pair with that
\* name, or null (found = FALSE).
SearchParamsGet(search, name) ==
  LET pairs == Split(search, "&")
      NameOf(pair) == FormDecode(SubSeq(pair, 1, FirstOf(pair, {"="}, 1) - 1))
      ValueOf(pair) == FormDecode(SubSeq(pair, FirstOf(pair, {"="}, 1) + 1, Len(pair)))
      Is(i) == pairs[i] # <<>> /\ NameOf(pairs[i]) = name
  IN  IF \E i \in 1..Len(pairs) : Is(i)
      THEN [found |-> TRUE,
            value |-> ValueOf(pairs[CHOOSE i \in 1..Len(pairs) :
                                      Is(i) /\ \A j \in 1..(i - 1) : ~Is(j)])]
      ELSE [found |-> FALSE, value |-> <<>>]

SendUrlName == <<"s", "e", "n", "d", "u", "r", "l">>

\* getIdentifier(url).  In the build that stores pastes (usesPastebin), the
\* part of the pathname of sendurl after its last "/"; in the build that
\* stores objects, the pathname of sendurl without its first character; ""
\* when url or sendurl is no URL or there is no sendurl.
getIdentifier(usesPastebin, url) ==
  LET urlObj == NewURL(url)
      sendUrlParam == SearchParamsGet(urlObj.search, SendUrlName)
      sendUrlObj == NewURL(sendUrlParam.value)
      pathname == sendUrlObj.pathname
  IN  IF ~urlObj.ok THEN <<>>
      ELSE IF ~sendUrlParam.found \/ sendUrlParam.value = <<>> THEN <<>>
      ELSE IF ~sendUrlObj.ok THEN <<>>
      ELSE IF usesPastebin
      THEN SubSeq(pathname, LastIndexOf(pathname, "/") + 1, Len(pathname))
      ELSE SubSeq(pathname, 2, Len(pathname))

\* The suffix that share takes from the response of the paste service:
\* new URL(res.text) throws (ok = FALSE) or the last segment of its pathname.
PasteSuffix(resText) ==
  LET urlObj == NewURL(resText)
      pathSegments == Split(urlObj.pathname, "/")
  IN  IF ~urlObj.ok THEN [ok |-> FALSE, suffix |-> <<>>]
      ELSE [ok |-> TRUE, suffix |-> pathSegments[Len(pathSegments)]]

LinkHead ==
  <<"o", "b", "s", "i", "d", "i", "a", "n", ":", "/", "/", "s", "e", "n",
  "d", "-", "n", "o", "t", "e", "?", "s", "e", "n", "d", "u", "r", "l", "=",
  "h", "t", "t", "p", "s", ":", "/", "/", "p", "a", "s", "t", "e", "b", "i",
  "n", ".", "c", "o", "m", "/", "r", "a", "w", "/">>

LinkFilename == <<"&", "f", "i", "l", "e", "n", "a", "m", "e", "=">>

LinkExtension == <<".", "m", "d">>

LinkKey ==
  <<"&", "e", "n", "c", "r", "y", "p", "t", "e", "d", "=", "t", "r", "u",
  "e", "&", "k", "e", "y", "=">>

\* An application URL that carries the flag and the key of every share.
obsidianUrlWithKeyAlways(suffix, basename, shareUnencrypted, encryptionKey) ==
  LinkHead \o suffix \o LinkFilename \o basename \o LinkExtension
    \o LinkKey \o Expand(encryptionKey)

\* The application URL that share builds.
obsidianUrl(suffix, basename, shareUnencrypted, encryptionKey) ==
  LinkHead \o suffix \o LinkFilename \o basename \o LinkExtension
    \o (IF shareUnencrypted THEN <<>> ELSE LinkKey \o Expand(encryptionKey))

\* field(key): the name of a metadata field, the pair of the prefix and the
\* key (the source joins them with "_").
field(yamlField, key) == <<yamlField, key>>

\* hasSharedFile(file): the parsed link of the file's metadata, or false
\* (matched = FALSE) when the field is absent or empty or does not parse.
hasSharedFile(frontmatter, yamlField) ==
  LET name == field(yamlField, "link")
      shareLink == IF name \in DOMAIN frontmatter THEN frontmatter[name] ELSE <<>>
  IN  IF shareLink # <<>> /\ parseExistingShareUrl(shareLink).matched
      THEN parseExistingShareUrl(shareLink)
      ELSE NoSharedUrl

(***************************************************************************)
(* Texts on the wire.  The content of a request or of a stored object is   *)
(* a note text (form "text") or the JSON text of a ciphertext list (form   *)
(* "json", kept as the list: its base64 strings, brackets, quotes and      *)
(* commas are ASCII, and escapes counts how many times it was escaped).    *)
(* An escape sequence of a note text is one unit, "%" and the bytes.       *)
(***************************************************************************)
TextContent(text) == [form |-> "text", escapes |-> 0, text |-> text, list |-> <<>>]

\* JSON.stringify(ciphertext)
JSONStringify(ciphertext) ==
  [form |-> "json", escapes |-> 0, text |-> EmptyStr, list |-> ciphertext]

\* JSON.parse(content): the list, or a SyntaxError (ok = FALSE) for a text
\* that is no JSON text (a note text of this model, or an escaped JSON text).
JSONParse(content) ==
  IF content.form = "json" /\ content.escapes = 0
  THEN [ok |-> TRUE, value |-> content.list]
  ELSE [ok |-> FALSE, value |-> <<>>]

\* The escape sequences of the characters that encodeURIComponent escapes.
UriEscapes ==
  [c \in {"u00E9", ByteOrderMark, Replacement, "%"} |->
     CASE c = "u00E9" -> "%C3%A9"
       [] c = ByteOrderMark -> "%EF%BB%BF"
       [] c = Replacement -> "%EF%BF%BD"
       [] c = "%" -> "%25"]

PairEscape == "%F0%9F%98%80"

\* A surrogate of the code units t that is not part of a pair.
HasLoneSurrogate(t) ==
  \E i \in 1..Len(t) :
    \/ t[i] = HighSurrogate /\ (i = Len(t) \/ t[i + 1] # LowSurrogate)
    \/ t[i] = LowSurrogate /\ (i = 1 \/ t[i - 1] # HighSurrogate)

RECURSIVE EscapeUnits(_)
EscapeUnits(t) ==
  IF t = <<>> THEN <<>>
  ELSE IF t[1] = HighSurrogate THEN <<PairEscape>> \o EscapeUnits(SubSeq(t, 3, Len(t)))
  ELSE IF t[1] \in DOMAIN UriEscapes THEN <<UriEscapes[t[1]]>> \o EscapeUnits(Tail(t))
  ELSE <<t[1]>> \o EscapeUnits(Tail(t))

RECURSIVE UnescapeUnits(_)
UnescapeUnits(t) ==
  IF t = <<>> THEN <<>>
  ELSE IF t[1] = PairEscape
  THEN <<HighSurrogate, LowSurrogate>> \o UnescapeUnits(Tail(t))
  ELSE IF \E c \in DOMAIN UriEscapes : UriEscapes[c] = t[1]
  THEN <<CHOOSE c \in DOMAIN UriEscapes : UriEscapes[c] = t[1]>> \o UnescapeUnits(Tail(t))
  ELSE <<t[1]>> \o UnescapeUnits(Tail(t))

\* encodeURIComponent(content): a URIError (ok = FALSE) for a text with a
\* lone surrogate.
encodeURIComponent(content) ==
  IF content.form = "json"
  THEN [ok |-> TRUE, value |-> [content EXCEPT !.escapes = @ + 1]]
  ELSE IF HasLoneSurrogate(content.text.tail)
  THEN [ok |-> FALSE, value |-> content]
  ELSE [ok |-> TRUE,
        value |-> [content EXCEPT !.text = Str(@.pad, EscapeUnits(@.tail))]]

\* decodeURIComponent(content): a URIError (ok = FALSE) for a text with a
\* "%" that starts no escape sequence.
decodeURIComponent(content) ==
  IF content.form = "json"
  THEN [ok |-> TRUE, value |-> [content EXCEPT !.escapes = Max(@ - 1, 0)]]
  ELSE IF \E i \in 1..Len(content.text.tail) : content.text.tail[i] = "%"
  THEN [ok |-> FALSE, value |-> content]
  ELSE [ok |-> TRUE,
        value |-> [content EXCEPT !.text = Str(@.pad, UnescapeUnits(@.tail))]]

(***************************************************************************)
(* The paste service and the application's links.                          *)
(***************************************************************************)
PasteUrlHead == <<"h", "t", "t", "p", "s", ":", "/", "/", "p", "a", "s", "t", "e", "b", "i", "n", ".", "c", "o", "m", "/">>

\* The text the paste service answers a stored paste with: its address.
PasteUrl(suffix) == PasteUrlHead \o suffix

\* The text the paste service answers a refused request with.
BadApiRequest ==
  <<"B", "a", "d", " ", "A", "P", "I", " ", "r", "e", "q", "u", "e", "s",
  "t", ",", " ", "i", "n", "v", "a", "l", "i", "d", " ", "a", "p", "i", "_",
  "d", "e", "v", "_", "k", "e", "y">>

\* The paste that the address sendurl names.
PasteIdOf(sendurl) ==
  LET pathname == NewURL(sendurl).pathname
  IN  SubSeq(pathname, LastIndexOf(pathname, "/") + 1, Len(pathname))

ActionHead == <<"o", "b", "s", "i", "d", "i", "a", "n", ":", "/", "/", "s", "e", "n", "d", "-", "n", "o", "t", "e", "?">>

\* The value of the parameter `name` of the application URL (<<>> when it
\* has none): the application splits the query at "&" and "=" and decodes
\* each part with decodeURIComponent.
UriParam(link, name) ==
  LET NameOf(pair) == PercentDecode(SubSeq(pair, 1, FirstOf(pair, {"="}, 1) - 1), FALSE)
      ValueOf(pair) ==
        PercentDecode(SubSeq(pair, FirstOf(pair, {"="}, 1) + 1, Len(pair)), FALSE)
      Param(pairs) ==
        LET Is(i) == NameOf(pairs[i]) = name
        IN  IF \E i \in 1..Len(pairs) : Is(i)
            THEN ValueOf(pairs[CHOOSE i \in 1..Len(pairs) :
                                 Is(i) /\ \A j \in (i + 1)..Len(pairs) : ~Is(j)])
            ELSE <<>>
  IN  CHOOSE value \in {Param(pairs) : pairs \in {Split(NewURL(link).search, "&")}} : TRUE

\* The data the protocol handler is called with for a link: the action and
\* the parameters.
ProtocolData(link) ==
  [action |-> IF NewURL(link).ok /\ Len(link) >= Len(ActionHead)
                 /\ SubSeq(link, 1, Len(ActionHead)) = ActionHead
              THEN <<"s", "e", "n", "d", "-", "n", "o", "t", "e">>
              ELSE <<>>,
   sendurl |-> UriParam(link, SendUrlName),
   filename |-> UriParam(link, <<"f", "i", "l", "e", "n", "a", "m", "e">>),
   encrypted |-> UriParam(link, <<"e", "n", "c", "r", "y", "p", "t", "e", "d">>),
   key |-> UriParam(link, <<"k", "e", "y">>)]

\* Metadata: a function from field names to values.
Without(frontmatter, name) ==
  [n \in DOMAIN frontmatter \ {name} |-> frontmatter[n]]

With(frontmatter, name, value) ==
  [n \in DOMAIN frontmatter \cup {name} |-> IF n = name THEN value ELSE frontmatter[n]]

ValueOrNone(frontmatter, name) ==
  IF name \in DOMAIN frontmatter THEN frontmatter[name] ELSE <<>>

\* The field that share names literally: "send_link".
SendLink == <<"send", "link">>

(***************************************************************************)
(* The state.  usesPastebin .. vault: a sender who shares a note and       *)
(* deletes shared notes, the storage, and a recipient who opens links.     *)
(* kpc .. sharedFile: one use of the functions on share links              *)
(* (a link is built, or a text is taken as the link, and parsed).          *)
(* cpc .. decrypted: one use of the chunk cipher (a plaintext              *)
(* is encrypted, and the payload, or a changed payload, is decrypted).  A  *)
(* payload can hold hundreds of chunks, so the state keeps encryptString's *)
(* arguments and the summary of its result; the payload itself is the      *)
(* state function EncryptedPayload.                                        *)
(***************************************************************************)
VARIABLES
  cpc,          \* "input", "encrypted" or "decrypted"
  plaintext,    \* the plaintext given to encryptString
  existingKey,  \* the existingKey given to encryptString ("" for none)
  derivedKey,   \* the key _generateKey derived in this call
  encrypted,    \* of the result of encryptString: ok, key, err, chunks
  moved,        \* <<how, i, j>>: how the payload was changed before decryptString
  presentedKey, \* the key text given to decryptString
  decrypted,    \* what decryptString returned
  kpc,          \* "input", "parsed", "identified" or "checked"
  linkInput,    \* what the link is built from, or the text given as the link
  shareLink,    \* the link
  parsed,       \* parseExistingShareUrl(shareLink)
  identifier,   \* getIdentifier(shareLink)
  sharedFile,   \* hasSharedFile of a file whose metadata holds shareLink
  usesPastebin, \* the build: deletePaste asks the paste service (or the object store)
  settings,     \* usePastebin, shareUnencrypted, yamlField, clipboard
  noteText,     \* the text of the sender's note
  frontmatter,  \* the metadata of the sender's note
  pastes,       \* the storage: the content stored under each identifier
  spc,          \* uploadNote: "idle", "encrypted" (share is about to send)
  note,         \* the Note of the running uploadNote and the variables of share
  puts,         \* the requests that share sent: state, body, response, closure
  clipboard,    \* the text on the clipboard
  statusMessage,\* the last message shown
  dpc,          \* deleteSharedNote: "idle", "confirm", "requested", "finished"
  deletion,     \* the link, the identifier and the outcome of the delete, and the
                \* shares that were pending when it removed the link field
  rpc,          \* the protocol handler: "idle", "fetching", "created", "failed"
  received,     \* the link the recipient opened, with the handler's data
  vault         \* the files of the recipient's vault

cryptoVars ==
  <<cpc, plaintext, existingKey, derivedKey, encrypted, moved, presentedKey, decrypted>>

codecVars == <<kpc, linkInput, shareLink, parsed, identifier, sharedFile>>

workflowVars ==
  <<usesPastebin, settings, noteText, frontmatter, pastes, spc, note, puts,
    clipboard, statusMessage, dpc, deletion, rpc, received, vault>>

vars == <<cryptoVars, codecVars, workflowVars>>

\* Bounds of the inputs.
MaxChars == 1
MaxChunks == 2
MaxMoveFrom == 1

\* The characters a plaintext is made of, each as its UTF-16 code units.
Characters ==
  { <<"b">>, <<"u00E9">>, <<HighSurrogate, LowSurrogate>>, <<ByteOrderMark>> }

RECURSIVE CharSeqs(_)
CharSeqs(n) ==
  IF n = 0 THEN {<<>>}
  ELSE CharSeqs(n - 1) \cup {s \o c : s \in CharSeqs(n - 1), c \in Characters}

\* Plaintexts: well-formed strings.  Short ones, ones that end at or next to
\* a chunk boundary, and one of more than 256 chunks.
Plaintexts ==
  {Str(k * chunkSize - d, t) :
     k \in 1..MaxChunks, d \in 0..1, t \in CharSeqs(MaxChars)}
  \cup {Str(0, t) : t \in CharSeqs(MaxChars)}
  \cup {Str(256 * chunkSize + 1, <<>>)}

\* A 43-character key text: "a"s, then body, then the last character.
KeyText(body, last) == Str(42 - Len(body), body \o <<last>>)

\* Keys that _generateKey can derive (32 bytes).
DerivedKeys == {KeyText(<<>>, "A"), KeyText(<<"+", "/">>, "Q")}

\* Key texts that can be handed to encryptString or decryptString: the
\* derived keys, a text that differs from a derived key only in the unused
\* low bits of its last character, a text of another 32 bytes, a text of 16
\* bytes, a text of 20 bytes, a text that is not base64, and a derived key
\* with its padding character.
KeyTexts ==
  DerivedKeys
  \cup { KeyText(<<>>, "B"), KeyText(<<>>, "E"),
         Str(21, <<"Q">>), Str(26, <<"Q">>), Str(42, <<"!">>),
         Str(42, <<"A", "=">>) }

NoSummary == [ok |-> FALSE, key |-> EmptyStr, err |-> "", chunks |-> 0]
NoResult == [ok |-> FALSE, value |-> EmptyStr, err |-> ""]

\* The chunk cipher, not in use.
CryptoIdle ==
  /\ cpc = "idle"
  /\ plaintext = EmptyStr
  /\ existingKey = EmptyStr
  /\ derivedKey = EmptyStr
  /\ encrypted = NoSummary
  /\ moved = <<"", 0, 0>>
  /\ presentedKey = EmptyStr
  /\ decrypted = NoResult

NoLinkInput ==
  [kind |-> "none", suffix |-> <<>>, basename |-> <<>>,
   shareUnencrypted |-> FALSE, key |-> EmptyStr, text |-> <<>>]

\* The functions on share links, not in use.
CodecIdle ==
  /\ kpc = "idle"
  /\ linkInput = NoLinkInput
  /\ shareLink = <<>>
  /\ parsed = NoSharedUrl
  /\ identifier = <<>>
  /\ sharedFile = NoSharedUrl

NoNote ==
  [isEncrypted |-> TRUE, isForceClipboard |-> FALSE, shareUnencrypted |-> FALSE,
   noteContent |-> TextContent(EmptyStr),
   encryptionKey |-> EmptyStr, text |-> EmptyStr, metaBefore |-> <<>>]

NoDeletion ==
  [url |-> <<>>, identifier |-> <<>>, outcome |-> "", removedWhile |-> "",
   fieldsRemoved |-> FALSE, linkBefore |-> <<>>, pendingShares |-> {}]

NoReceived ==
  [link |-> <<>>, action |-> <<>>, sendurl |-> <<>>, filename |-> <<>>,
   encrypted |-> <<>>, key |-> <<>>, newFilename |-> <<>>]

\* The sender, the storage and the recipient, not in use.
WorkflowIdle ==
  /\ usesPastebin = TRUE
  /\ settings = [usePastebin |-> FALSE, shareUnencrypted |-> FALSE, yamlField |-> "send",
                 clipboard |-> TRUE]
  /\ noteText = EmptyStr
  /\ frontmatter = <<>>
  /\ pastes = <<>>
  /\ spc = "off"
  /\ note = NoNote
  /\ puts = <<>>
  /\ clipboard = <<>>
  /\ statusMessage = ""
  /\ dpc = "off"
  /\ deletion = NoDeletion
  /\ rpc = "off"
  /\ received = NoReceived
  /\ vault = <<>>

InitCrypto ==
  /\ CodecIdle
  /\ WorkflowIdle
  /\ cpc = "input"
  /\ plaintext \in Plaintexts
  /\ existingKey \in {EmptyStr} \cup KeyTexts
  /\ derivedKey = EmptyStr
  /\ encrypted = NoSummary
  /\ moved = <<"", 0, 0>>
  /\ presentedKey = EmptyStr
  /\ decrypted = NoResult

\* What encryptString(plaintext, existingKey) returned.
EncryptedPayload == encryptString(plaintext, existingKey, derivedKey)

\* The list with the chunks at 0-based indices i and j exchanged.
Exchange(list, i, j) ==
  [n \in 1..Len(list) |->
     IF n = i + 1 THEN list[j + 1] ELSE IF n = j + 1 THEN list[i + 1] ELSE list[n]]

\* The EncryptedString given to decryptString: the payload, with the chunks
\* at indices i and j exchanged when how = "moved", and the key text `key`.
PresentedOf(payload, how, i, j, key) ==
  [ciphertext |-> IF how = "moved" THEN Exchange(payload.ciphertext, i, j)
                  ELSE payload.ciphertext,
   key |-> key]

\* encryptString(plaintext, existingKey)
CryptoEncrypt ==
  /\ cpc = "input"
  /\ \E k \in DerivedKeys :
       /\ derivedKey' = (IF StrLen(existingKey) > 0 THEN EmptyStr ELSE k)
       /\ \E r \in {encryptString(plaintext, existingKey, k)} :
            encrypted' = [ok |-> r.ok, key |-> r.key, err |-> r.err,
                          chunks |-> Len(r.ciphertext)]
  /\ cpc' = "encrypted"
  /\ UNCHANGED <<plaintext, existingKey, moved, presentedKey, decrypted>>
  /\ UNCHANGED <<codecVars, workflowVars>>

\* decryptString(presented), for the payload changed as `how`, i, j and key say.
CryptoDecryptAs(how, i, j, key) ==
  /\ moved' = <<how, i, j>>
  /\ presentedKey' = key
  /\ \E payload \in {EncryptedPayload} :
       \E presented \in {PresentedOf(payload, how, i, j, key)} :
         decrypted' = decryptString(presented)
  /\ cpc' = "decrypted"
  /\ UNCHANGED <<plaintext, existingKey, derivedKey, encrypted>>
  /\ UNCHANGED <<codecVars, workflowVars>>

\* decryptString of the payload as encryptString returned it.
CryptoDecrypt ==
  /\ cpc = "encrypted"
  /\ encrypted.ok
  /\ CryptoDecryptAs("same", 0, 0, encrypted.key)

\* decryptString of the ciphertext with another key text.
CryptoDecryptOtherKey ==
  /\ cpc = "encrypted"
  /\ encrypted.ok
  /\ \E k \in KeyTexts \ {encrypted.key} : CryptoDecryptAs("key", 0, 0, k)

\* decryptString of the ciphertext with the chunk of index i moved to index
\* j (and the chunk of index j to index i), under the right key.
CryptoDecryptMoved ==
  /\ cpc = "encrypted"
  /\ encrypted.ok
  /\ \E i \in 0..MaxMoveFrom, j \in 0..(encrypted.chunks - 1) :
       /\ i < encrypted.chunks
       /\ i # j
       /\ CryptoDecryptAs("moved", i, j, encrypted.key)

NextCrypto ==
  \/ CryptoEncrypt
  \/ CryptoDecrypt
  \/ CryptoDecryptOtherKey
  \/ CryptoDecryptMoved

SpecCrypto == InitCrypto /\ [][NextCrypto]_vars

(***************************************************************************)
(* The functions on share links: Init draws what a link is built from, or  *)
(* a text that a metadata field can hold, and the actions apply            *)
(* parseExistingShareUrl, getIdentifier and hasSharedFile to it.           *)
(***************************************************************************)

\* Suffixes that the paste service gives out.
Suffixes == {<<"A", "b", "3", "x", "Y", "9", "Q", "z">>, <<"k", "_", "0">>, <<"Z">>}

\* Base names of note files.
Basenames == {<<"n", "o", "t", "e">>, <<"m", "y", " ", "n", "o", "t", "e">>, <<"a", "#", "b">>}

\* Texts that are neither a bare storage link nor an application URL.
NotLinks == {<<"n", "o", "t", " ", "a", " ", "u", "r", "l">>, <<"!", "!", "!">>, <<"k", "e", "y", "#">>}

\* Bare storage links: the address, "#" and the key.
BareLinks ==
  {<<"h", "t", "t", "p", "s", ":", "/", "/", "h", "o", "s", "t", ".", "e", "x", "a", "m", "p", "l", "e", "/">> \o s \o <<"#">> \o Expand(k) :
     s \in Suffixes, k \in DerivedKeys}

LinkInputs ==
  {[kind |-> "parts", suffix |-> s, basename |-> f, shareUnencrypted |-> u,
    key |-> (IF u THEN EmptyStr ELSE k), text |-> <<>>] :
     s \in Suffixes, f \in Basenames, u \in BOOLEAN, k \in DerivedKeys}
  \cup {[NoLinkInput EXCEPT !.kind = "text", !.text = t] : t \in NotLinks}
  \cup {[NoLinkInput EXCEPT !.kind = "bare", !.text = t] : t \in BareLinks}

\* The link of an input: the application URL share builds of its parts, or
\* its text.
LinkOf(input) ==
  IF input.kind = "parts"
  THEN obsidianUrl(input.suffix, input.basename, input.shareUnencrypted, input.key)
  ELSE input.text

InitCodec ==
  /\ CryptoIdle
  /\ WorkflowIdle
  /\ kpc = "input"
  /\ linkInput \in LinkInputs
  /\ shareLink = LinkOf(linkInput)
  /\ parsed = NoSharedUrl
  /\ identifier = <<>>
  /\ sharedFile = NoSharedUrl

\* parseExistingShareUrl(shareLink)
CodecParse ==
  /\ kpc = "input"
  /\ parsed' = parseExistingShareUrl(shareLink)
  /\ kpc' = "parsed"
  /\ UNCHANGED <<linkInput, shareLink, identifier, sharedFile>>
  /\ UNCHANGED <<cryptoVars, workflowVars>>

\* getIdentifier(shareLink), in the build that stores pastes
CodecGetIdentifier ==
  /\ kpc = "parsed"
  /\ identifier' = getIdentifier(TRUE, shareLink)
  /\ kpc' = "identified"
  /\ UNCHANGED <<linkInput, shareLink, parsed, sharedFile>>
  /\ UNCHANGED <<cryptoVars, workflowVars>>

\* hasSharedFile(file), for a file whose link field holds shareLink
CodecHasSharedFile ==
  /\ kpc = "identified"
  /\ \E yamlField \in {"send"} :
       sharedFile' = hasSharedFile([n \in {field(yamlField, "link")} |-> shareLink],
                                   yamlField)
  /\ kpc' = "checked"
  /\ UNCHANGED <<linkInput, shareLink, parsed, identifier>>
  /\ UNCHANGED <<cryptoVars, workflowVars>>

NextCodec ==
  \/ CodecParse
  \/ CodecGetIdentifier
  \/ CodecHasSharedFile

SpecCodec == InitCodec /\ [][NextCodec]_vars

(***************************************************************************)
(* The workflow: the sender shares the note (uploadNote, share), deletes   *)
(* the shared note (deleteSharedNote), the storage serves the requests,    *)
(* and the recipient opens a link (the protocol handler).                  *)
(***************************************************************************)

\* The number of requests share sends in a behaviour.
MaxShares == 1

\* The number of requests share sends in a behaviour in which nothing is
\* deleted and no link is opened.
MaxSharesAlone == 2

EmptyMap == [n \in {} |-> <<>>]

\* The texts of the sender's note: a short one, and one with a non-BMP
\* character on code units 1999 and 2000.
NoteTexts == {Str(2, <<"u00E9">>), Str(chunkSize - 1, <<HighSurrogate, LowSurrogate>>)}

\* file.basename of the sender's note.
Basename == <<"n", "o", "t", "e">>

\* The identifiers the paste service gives to the pastes it stores, in order.
PasteIds == <<<<"A", "b", "3", "x", "Y", "9", "Q", "z">>, <<"k", "_", "0">>, <<"W", "7">>>>

\* A share that took place before: its paste, its link and the time of it.
PreviousSuffix == <<"Z">>
PreviousKey == KeyText(<<>>, "A")
PreviousLink == obsidianUrl(PreviousSuffix, Basename, FALSE, PreviousKey)
PreviousUpdated == <<"2", "0", "2", "4", "-", "0", "1", "-", "0", "1", "T", "0", "0", ":", "0", "0", ":", "0", "0", "+", "0", "0", ":", "0", "0">>
PreviousPaste ==
  encodeURIComponent(
    JSONStringify(encryptString(Str(1, <<"b">>), EmptyStr, PreviousKey).ciphertext)).value

\* The keys _generateKey derives in the shares of a behaviour, in order: a
\* new one in each.
ShareKeys ==
  <<KeyText(<<"+", "/">>, "Q"), KeyText(<<>>, "I"), KeyText(<<"/">>, "Y"),
    KeyText(<<"+">>, "c")>>

\* generateRandomString(): one the recipient's vault can hold a file name
\* of already, and another.
TakenRandomString == <<"R", "n", "d", "0", "1">>
RandomStrings == {TakenRandomString, <<"a", "Z", "9", "x", "K">>}

UploadError == "There was an error uploading the note, please try again."

\* A behaviour follows the sender's note through shares and either the
\* deletion of the shared note (dpc = "idle") or a recipient who opens a link
\* (rpc = "idle").  A note with one of the checkbox properties encrypted and
\* unencrypted is one that has not been shared before.
Init ==
  /\ CryptoIdle
  /\ CodecIdle
  /\ usesPastebin \in BOOLEAN
  /\ settings \in [usePastebin : BOOLEAN, shareUnencrypted : BOOLEAN,
                   yamlField : {"send", "share"}, clipboard : {TRUE}]
  /\ noteText \in NoteTexts
  /\ \E shared \in {"never", "link", "linkAndUpdated"}, stored \in BOOLEAN,
        checked \in {"none", "unencrypted", "encrypted"} :
       /\ checked # "none" => shared = "never"
       /\ frontmatter =
            (CASE shared = "never" -> EmptyMap
               [] shared = "link" -> (SendLink :> PreviousLink)
               [] shared = "linkAndUpdated" ->
                    (field(settings.yamlField, "link") :> PreviousLink
                     @@ field(settings.yamlField, "updated") :> PreviousUpdated))
            @@ (IF checked = "none" THEN EmptyMap
                ELSE (field(settings.yamlField, checked) :> TRUE))
       /\ pastes = IF shared # "never" /\ stored
                   THEN (PreviousSuffix :> PreviousPaste) ELSE EmptyMap
  /\ spc = "idle"
  /\ note = NoNote
  /\ puts = <<>>
  /\ clipboard = <<>>
  /\ statusMessage = ""
  /\ deletion = NoDeletion
  /\ received = NoReceived
  /\ \/ /\ dpc = "idle"
        /\ rpc = "off"
        /\ vault = EmptyMap
     \/ /\ dpc = "off"
        /\ rpc = "idle"
        /\ vault \in {EmptyMap,
                      ((Basename \o LinkExtension) :> TextContent(Str(1, <<"b">>))),
                      ((Basename \o LinkExtension) :> TextContent(Str(1, <<"b">>))
                       @@ (Basename \o <<"-">> \o TakenRandomString \o LinkExtension)
                            :> TextContent(Str(0, <<"b">>)))}

\* The property `key` of the frontmatter is the checkbox value true.
Checked(meta, yamlField, key) ==
  /\ field(yamlField, key) \in DOMAIN meta
  /\ meta[field(yamlField, key)] = TRUE

\* note.isEncrypted as uploadNote leaves it: shareAsPlainText(true) for the
\* setting and for the property unencrypted, then shareAsPlainText(false)
\* for the property encrypted.
IsEncrypted(shareUnencrypted, meta, yamlField) ==
  IF Checked(meta, yamlField, "encrypted") THEN TRUE
  ELSE IF Checked(meta, yamlField, "unencrypted") THEN FALSE
  ELSE ~shareUnencrypted

\* uploadNote(false, forceClipboard) and share up to the encryption, in the
\* path that stores a paste: the note is read and, unless shared
\* unencrypted, encrypted under a fresh key.
UploadNoteWith(forceClipboard) ==
  /\ spc = "idle"
  /\ Len(puts) < (IF dpc = "off" /\ rpc = "off" THEN MaxSharesAlone ELSE MaxShares)
  /\ Len(puts) < Len(ShareKeys)
  /\ settings.usePastebin
  /\ \E k \in {ShareKeys[Len(puts) + 1]} :
       LET shareUnencrypted == settings.shareUnencrypted
           plainTextNoteContent == noteText
           encryptedNoteContent == encryptString(plainTextNoteContent, EmptyStr, k)
       IN  note' = [isEncrypted |-> IsEncrypted(settings.shareUnencrypted, frontmatter,
                                                settings.yamlField),
                    isForceClipboard |-> forceClipboard,
                    shareUnencrypted |-> shareUnencrypted,
                    noteContent |-> IF shareUnencrypted
                                    THEN TextContent(plainTextNoteContent)
                                    ELSE JSONStringify(encryptedNoteContent.ciphertext),
                    encryptionKey |-> IF shareUnencrypted THEN EmptyStr
                                      ELSE encryptedNoteContent.key,
                    text |-> plainTextNoteContent,
                    metaBefore |-> frontmatter]
  /\ spc' = "encrypted"
  /\ UNCHANGED <<usesPastebin, settings, noteText, frontmatter, pastes, puts,
                 clipboard, statusMessage, dpc, deletion, rpc, received, vault>>
  /\ UNCHANGED <<cryptoVars, codecVars>>

\* uploadNote(), as the commands and the icon call it.
UploadNote == UploadNoteWith(FALSE)

\* uploadNote and share in the other path: createNote is called on an api
\* that main never creates, share throws, and uploadNote shows the error.
UploadNoteLegacy ==
  /\ spc = "idle"
  /\ ~settings.usePastebin
  /\ statusMessage' = UploadError
  /\ UNCHANGED <<usesPastebin, settings, noteText, frontmatter, pastes, spc, note,
                 puts, clipboard, dpc, deletion, rpc, received, vault>>
  /\ UNCHANGED <<cryptoVars, codecVars>>

\* share from the metadata update to its return: "send_link" is deleted,
\* the content is escaped and the request is sent; share does not wait for
\* the response.  A URIError leaves share before the request.
ShareSend ==
  /\ spc = "encrypted"
  /\ frontmatter' = Without(frontmatter, SendLink)
  /\ LET body == encodeURIComponent(note.noteContent)
     IN  IF body.ok
         THEN /\ puts' = Append(puts, [state |-> "inflight",
                                       body |-> body.value,
                                       resText |-> <<>>,
                                       link |-> <<>>,
                                       isEncrypted |-> note.isEncrypted,
                                       isForceClipboard |-> note.isForceClipboard,
                                       shareUnencrypted |-> note.shareUnencrypted,
                                       encryptionKey |-> note.encryptionKey,
                                       text |-> note.text,
                                       metaBefore |-> note.metaBefore])
              /\ statusMessage' = statusMessage
         ELSE /\ puts' = puts
              /\ statusMessage' = UploadError
  /\ spc' = "idle"
  /\ note' = NoNote
  /\ UNCHANGED <<usesPastebin, settings, noteText, pastes, clipboard, dpc,
                 deletion, rpc, received, vault>>
  /\ UNCHANGED <<cryptoVars, codecVars>>

\* The paste service stores the paste of request k and answers its address.
PasteStore(k) ==
  /\ puts[k].state = "inflight"
  /\ k <= Len(PasteIds)
  /\ pastes' = With(pastes, PasteIds[k], puts[k].body)
  /\ puts' = [puts EXCEPT ![k].state = "responded", ![k].resText = PasteUrl(PasteIds[k])]
  /\ UNCHANGED <<usesPastebin, settings, noteText, frontmatter, spc, note,
                 clipboard, statusMessage, dpc, deletion, rpc, received, vault>>
  /\ UNCHANGED <<cryptoVars, codecVars>>

\* The paste service refuses request k: it answers an error text.
PasteRefuse(k) ==
  /\ puts[k].state = "inflight"
  /\ puts' = [puts EXCEPT ![k].state = "responded", ![k].resText = BadApiRequest]
  /\ UNCHANGED <<usesPastebin, settings, noteText, frontmatter, pastes, spc, note,
                 clipboard, statusMessage, dpc, deletion, rpc, received, vault>>
  /\ UNCHANGED <<cryptoVars, codecVars>>

\* Request k fails: no connection, or an error status.
PasteFail(k) ==
  /\ puts[k].state = "inflight"
  /\ puts' = [puts EXCEPT ![k].state = "rejected"]
  /\ UNCHANGED <<usesPastebin, settings, noteText, frontmatter, pastes, spc, note,
                 clipboard, statusMessage, dpc, deletion, rpc, received, vault>>
  /\ UNCHANGED <<cryptoVars, codecVars>>

\* share's then, building the link of the key of the Note that is being
\* shared when the response arrives.
ShareThenKeyOfNote(k) ==
  /\ puts[k].state = "responded"
  /\ LET res == PasteSuffix(puts[k].resText)
         link == obsidianUrl(res.suffix, Basename, puts[k].shareUnencrypted,
                             note.encryptionKey)
     IN  IF res.ok
         THEN /\ clipboard' = link
              /\ frontmatter' = With(frontmatter, SendLink, link)
              /\ puts' = [puts EXCEPT ![k].state = "done", ![k].link = link]
         ELSE /\ puts' = [puts EXCEPT ![k].state = "failed"]
              /\ UNCHANGED <<clipboard, frontmatter>>
  /\ UNCHANGED <<usesPastebin, settings, noteText, pastes, spc, note,
                 statusMessage, dpc, deletion, rpc, received, vault>>
  /\ UNCHANGED <<cryptoVars, codecVars>>

\* share's then: the link is built of the response, copied to the
\* clipboard and written to "send_link"; when the response is no URL, new
\* URL throws and catch logs the error.
ShareThen(k) ==
  /\ puts[k].state = "responded"
  /\ LET res == PasteSuffix(puts[k].resText)
         link == obsidianUrl(res.suffix, Basename, puts[k].shareUnencrypted,
                             puts[k].encryptionKey)
     IN  IF res.ok
         THEN /\ clipboard' = link
              /\ frontmatter' = With(frontmatter, SendLink, link)
              /\ puts' = [puts EXCEPT ![k].state = "done", ![k].link = link]
         ELSE /\ puts' = [puts EXCEPT ![k].state = "failed"]
              /\ UNCHANGED <<clipboard, frontmatter>>
  /\ UNCHANGED <<usesPastebin, settings, noteText, pastes, spc, note,
                 statusMessage, dpc, deletion, rpc, received, vault>>
  /\ UNCHANGED <<cryptoVars, codecVars>>

\* share's catch for a request that failed: the error is logged.
ShareCatch(k) ==
  /\ puts[k].state = "rejected"
  /\ puts' = [puts EXCEPT ![k].state = "failed"]
  /\ UNCHANGED <<usesPastebin, settings, noteText, frontmatter, pastes, spc, note,
                 clipboard, statusMessage, dpc, deletion, rpc, received, vault>>
  /\ UNCHANGED <<cryptoVars, codecVars>>

\* deleteSharedNote: for a shared file, the confirmation dialog is shown.
DeleteSharedNote ==
  /\ dpc \in {"idle", "finished"}
  /\ deletion.outcome # "pending"
  /\ LET sharedNote == hasSharedFile(frontmatter, settings.yamlField)
     IN  /\ sharedNote.matched
         /\ deletion' = [NoDeletion EXCEPT !.url = sharedNote.url]
  /\ dpc' = "confirm"
  /\ UNCHANGED <<usesPastebin, settings, noteText, frontmatter, pastes, spc, note,
                 puts, clipboard, statusMessage, rpc, received, vault>>
  /\ UNCHANGED <<cryptoVars, codecVars>>

\* The dialog is closed, and the confirmation runs all the same.
DeleteCancelConfirms ==
  /\ dpc = "confirm"
  /\ dpc' = "idle"
  /\ deletion' = [deletion EXCEPT
                    !.identifier = getIdentifier(usesPastebin, deletion.url),
                    !.outcome = "pending"]
  /\ UNCHANGED <<usesPastebin, settings, noteText, frontmatter, pastes, spc, note,
                 puts, clipboard, statusMessage, rpc, received, vault>>
  /\ UNCHANGED <<cryptoVars, codecVars>>

\* The dialog is closed without a confirmation.
DeleteCancel ==
  /\ dpc = "confirm"
  /\ dpc' = "idle"
  /\ deletion' = NoDeletion
  /\ UNCHANGED <<usesPastebin, settings, noteText, frontmatter, pastes, spc, note,
                 puts, clipboard, statusMessage, rpc, received, vault>>
  /\ UNCHANGED <<cryptoVars, codecVars>>

\* The confirmation: deletePaste(getIdentifier(url)) sends the request.
DeleteConfirm ==
  /\ dpc = "confirm"
  /\ deletion' = [deletion EXCEPT
                    !.identifier = getIdentifier(usesPastebin, deletion.url),
                    !.outcome = "pending",
                    !.linkBefore = ValueOrNone(frontmatter, field(settings.yamlField, "link"))]
  /\ dpc' = "requested"
  /\ statusMessage' = "Deleting note..."
  /\ UNCHANGED <<usesPastebin, settings, noteText, frontmatter, pastes, spc, note,
                 puts, clipboard, rpc, received, vault>>
  /\ UNCHANGED <<cryptoVars, codecVars>>

\* The storage serves the delete request: the object is removed ("ok"), or
\* there is none ("notfound"), or the storage refuses ("error"), or the
\* request fails ("network").
StorageDelete ==
  /\ deletion.outcome = "pending"
  /\ \E served \in {"served", "error", "network"} :
       IF served = "served"
       THEN /\ deletion' = [deletion EXCEPT !.outcome =
                              IF deletion.identifier \in DOMAIN pastes
                              THEN "ok" ELSE "notfound"]
            /\ pastes' = Without(pastes, deletion.identifier)
       ELSE /\ deletion' = [deletion EXCEPT !.outcome = served]
            /\ pastes' = pastes
  /\ UNCHANGED <<usesPastebin, settings, noteText, frontmatter, spc, note, puts,
                 clipboard, statusMessage, dpc, rpc, received, vault>>
  /\ UNCHANGED <<cryptoVars, codecVars>>

\* The requests of share that are not yet answered or whose answer share's
\* then has not yet run on, when the link field is in the metadata.
PendingShares ==
  IF field(settings.yamlField, "link") \in DOMAIN frontmatter
  THEN {k \in 1..Len(puts) : puts[k].state \in {"inflight", "responded"}}
  ELSE {}

\* The rest of the confirmation, deleting every field.
DeleteRemoveAllFields ==
  /\ dpc = "requested"
  /\ usesPastebin => deletion.outcome # "pending"
  /\ frontmatter' = EmptyMap
  /\ deletion' = [deletion EXCEPT !.fieldsRemoved = TRUE,
                                  !.removedWhile = deletion.outcome,
                                  !.pendingShares = PendingShares]
  /\ dpc' = "finished"
  /\ UNCHANGED <<usesPastebin, settings, noteText, pastes, spc, note, puts,
                 clipboard, statusMessage, rpc, received, vault>>
  /\ UNCHANGED <<cryptoVars, codecVars>>

\* The rest of the confirmation: after deletePaste has returned, the link
\* and updated fields are deleted.  deletePaste returns when the paste
\* service has answered or the request has failed (it logs either); in the
\* build that deletes from the object store it returns at once.
DeleteRemoveFields ==
  /\ dpc = "requested"
  /\ usesPastebin => deletion.outcome # "pending"
  /\ frontmatter' = Without(Without(frontmatter, field(settings.yamlField, "link")),
                            field(settings.yamlField, "updated"))
  /\ deletion' = [deletion EXCEPT !.fieldsRemoved = TRUE,
                                  !.removedWhile = deletion.outcome,
                                  !.pendingShares = PendingShares]
  /\ dpc' = "finished"
  /\ UNCHANGED <<usesPastebin, settings, noteText, pastes, spc, note, puts,
                 clipboard, statusMessage, rpc, received, vault>>
  /\ UNCHANGED <<cryptoVars, codecVars>>

\* copyShareLink: the link of the field link is copied, or, without one,
\* the note is shared by uploadNote(false, true).
CopyShareLink ==
  /\ spc = "idle"
  /\ LET link == ValueOrNone(frontmatter, field(settings.yamlField, "link"))
     IN  IF link # <<>>
         THEN /\ clipboard' = link
              /\ statusMessage' = "Shared link copied to clipboard"
              /\ UNCHANGED <<usesPastebin, settings, noteText, frontmatter, pastes, spc,
                             note, puts, dpc, deletion, rpc, received, vault>>
              /\ UNCHANGED <<cryptoVars, codecVars>>
         ELSE IF settings.usePastebin
              THEN UploadNoteWith(TRUE)
              ELSE UploadNoteLegacy

\* The links the recipient can have been given.
VisibleLinks ==
  {clipboard, ValueOrNone(frontmatter, SendLink),
   ValueOrNone(frontmatter, field(settings.yamlField, "link"))} \ {<<>>}

KeyParam == <<"&", "k", "e", "y", "=">>

\* The key of another share, in a link.
OtherKey == Expand(KeyText(<<>>, "E"))

\* The links that reach the recipient's application for a link given: the
\* link itself, the link cut off before its key parameter, and the link
\* with another key.
OpenedLinks(given) ==
  IF \E i \in 1..(Len(given) - Len(KeyParam) + 1) :
       SubSeq(given, i, i + Len(KeyParam) - 1) = KeyParam
  THEN LET i == CHOOSE j \in 1..(Len(given) - Len(KeyParam) + 1) :
                  SubSeq(given, j, j + Len(KeyParam) - 1) = KeyParam
       IN  {given, SubSeq(given, 1, i - 1),
            SubSeq(given, 1, i + Len(KeyParam) - 1) \o OtherKey}
  ELSE {given}

\* The protocol handler is called for a link and requests sendurl.
ReceiveOpen ==
  /\ rpc = "idle"
  /\ \E given \in VisibleLinks : \E link \in OpenedLinks(given) :
       \E data \in {ProtocolData(link)} :
           /\ data.action = <<"s", "e", "n", "d", "-", "n", "o", "t", "e">>
           /\ data.sendurl # <<>>
           /\ data.filename # <<>>
           /\ received' = [link |-> link, action |-> data.action,
                           sendurl |-> data.sendurl, filename |-> data.filename,
                           encrypted |-> data.encrypted, key |-> data.key,
                           newFilename |-> <<>>]
  /\ rpc' = "fetching"
  /\ UNCHANGED <<usesPastebin, settings, noteText, frontmatter, pastes, spc, note,
                 puts, clipboard, statusMessage, dpc, deletion, vault>>
  /\ UNCHANGED <<cryptoVars, codecVars>>

\* filename.replace(".md", "-" + random + ".md")
Renamed(filename, random) ==
  LET Here(i) == i + 2 <= Len(filename) /\ SubSeq(filename, i, i + 2) = LinkExtension
  IN  IF \E i \in 1..Len(filename) : Here(i)
      THEN LET i == CHOOSE j \in 1..Len(filename) :
                      Here(j) /\ \A h \in 1..(j - 1) : ~Here(h)
           IN  SubSeq(filename, 1, i - 1) \o <<"-">> \o random \o LinkExtension
                 \o SubSeq(filename, i + 3, Len(filename))
      ELSE filename

\* The content the handler makes of the response text: decoded and, for a
\* link with encrypted and key, parsed and decrypted.
ReceivedContent(text, data) ==
  LET decoded == decodeURIComponent(text)
      parsedList == JSONParse(decoded.value)
      plain == decryptString([ciphertext |-> parsedList.value, key |-> FromSeq(data.key)])
  IN  IF ~decoded.ok THEN [ok |-> FALSE, value |-> text]
      ELSE IF data.encrypted # <<>> /\ data.key # <<>>
      THEN IF ~parsedList.ok THEN [ok |-> FALSE, value |-> text]
           ELSE IF ~plain.ok THEN [ok |-> FALSE, value |-> text]
           ELSE [ok |-> TRUE, value |-> TextContent(plain.value)]
      ELSE [ok |-> TRUE, value |-> decoded.value]

\* The response arrives, and the content is written to the file of the
\* link's name whether or not there is one.
ReceiveResponseOverwrites ==
  /\ rpc = "fetching"
  /\ \E id \in {PasteIdOf(received.sendurl)} :
         IF id \in DOMAIN pastes
         THEN \E noteContent \in {ReceivedContent(pastes[id], received)} :
                IF noteContent.ok
                THEN /\ vault' = With(vault, received.filename, noteContent.value)
                     /\ received' = [received EXCEPT !.newFilename = received.filename]
                     /\ rpc' = "created"
                ELSE /\ rpc' = "failed"
                     /\ UNCHANGED <<vault, received>>
         ELSE /\ rpc' = "failed"
              /\ UNCHANGED <<vault, received>>
  /\ UNCHANGED <<usesPastebin, settings, noteText, frontmatter, pastes, spc, note,
                 puts, clipboard, statusMessage, dpc, deletion>>
  /\ UNCHANGED <<cryptoVars, codecVars>>

\* The response arrives.  With status 200: a free file name is chosen, the
\* content is decoded (and decrypted) and the file is created.  Without the
\* paste the request fails, and the handler with it.
ReceiveResponse ==
  /\ rpc = "fetching"
  /\ \E id \in {PasteIdOf(received.sendurl)} :
         IF id \in DOMAIN pastes
         THEN \E random \in RandomStrings :
                \E newFilename \in {IF received.filename \in DOMAIN vault
                                    THEN Renamed(received.filename, random)
                                    ELSE received.filename},
                   noteContent \in {ReceivedContent(pastes[id], received)} :
                    IF noteContent.ok /\ newFilename \notin DOMAIN vault
                    THEN /\ vault' = With(vault, newFilename, noteContent.value)
                         /\ received' = [received EXCEPT !.newFilename = newFilename]
                         /\ rpc' = "created"
                    ELSE /\ rpc' = "failed"
                         /\ UNCHANGED <<vault, received>>
         ELSE /\ rpc' = "failed"
              /\ UNCHANGED <<vault, received>>
  /\ UNCHANGED <<usesPastebin, settings, noteText, frontmatter, pastes, spc, note,
                 puts, clipboard, statusMessage, dpc, deletion>>
  /\ UNCHANGED <<cryptoVars, codecVars>>

\* The request of the handler fails: no connection.
ReceiveFails ==
  /\ rpc = "fetching"
  /\ rpc' = "failed"
  /\ UNCHANGED <<usesPastebin, settings, noteText, frontmatter, pastes, spc, note,
                 puts, clipboard, statusMessage, dpc, deletion, received, vault>>
  /\ UNCHANGED <<cryptoVars, codecVars>>

Next ==
  \/ UploadNote
  \/ UploadNoteLegacy
  \/ ShareSend
  \/ \E k \in 1..Len(puts) : PasteStore(k)
  \/ \E k \in 1..Len(puts) : PasteRefuse(k)
  \/ \E k \in 1..Len(puts) : PasteFail(k)
  \/ \E k \in 1..Len(puts) : ShareThen(k)
  \/ \E k \in 1..Len(puts) : ShareCatch(k)
  \/ DeleteSharedNote
  \/ DeleteCancel
  \/ DeleteConfirm
  \/ StorageDelete
  \/ DeleteRemoveFields
  \/ ReceiveOpen
  \/ ReceiveResponse
  \/ ReceiveFails

Spec == Init /\ [][Next]_vars

\* The sender copies the share link or shares the note, with the setting
\* clipboard on or off; nothing is deleted and no link is opened.
InitCopy ==
  /\ CryptoIdle
  /\ CodecIdle
  /\ usesPastebin = TRUE
  /\ settings \in [usePastebin : BOOLEAN, shareUnencrypted : BOOLEAN,
                   yamlField : {"send", "share"}, clipboard : BOOLEAN]
  /\ noteText \in NoteTexts
  /\ \E shared \in {"never", "link", "linkAndUpdated"} :
       /\ frontmatter =
            (CASE shared = "never" -> EmptyMap
               [] shared = "link" -> (SendLink :> PreviousLink)
               [] shared = "linkAndUpdated" ->
                    (field(settings.yamlField, "link") :> PreviousLink
                     @@ field(settings.yamlField, "updated") :> PreviousUpdated))
       /\ pastes = IF shared # "never"
                   THEN (PreviousSuffix :> PreviousPaste) ELSE EmptyMap
  /\ spc = "idle"
  /\ note = NoNote
  /\ puts = <<>>
  /\ clipboard = <<>>
  /\ statusMessage = ""
  /\ deletion = NoDeletion
  /\ received = NoReceived
  /\ dpc = "off"
  /\ rpc = "off"
  /\ vault = EmptyMap

NextCopy ==
  \/ CopyShareLink
  \/ UploadNote
  \/ UploadNoteLegacy
  \/ ShareSend
  \/ \E k \in 1..Len(puts) : PasteStore(k)
  \/ \E k \in 1..Len(puts) : PasteRefuse(k)
  \/ \E k \in 1..Len(puts) : PasteFail(k)
  \/ \E k \in 1..Len(puts) : ShareThen(k)
  \/ \E k \in 1..Len(puts) : ShareCatch(k)

SpecCopy == InitCopy /\ [][NextCopy]_vars

(***************************************************************************)
(* Claims about the workflow, checked under Spec.                          *)
(***************************************************************************)

\* C2 (as claimed): when a share has succeeded and the recipient opens its
\* link, the note the handler creates holds the text of the sender's note,
\* for a note shared encrypted and for a note shared unencrypted.
C2_ReceivedEqualsShared ==
  \A k \in 1..Len(puts) :
    (rpc = "created" /\ puts[k].state = "done" /\ received.link = puts[k].link)
      => vault[received.newFilename] = TextContent(puts[k].text)

\* C3 (as claimed): when the put of a share has failed (and nothing else has
\* changed the metadata: one share, no deletion), the metadata is what it
\* was before the share started.
C3_FailedShareKeepsMetadata ==
  \A k \in 1..Len(puts) :
    (/\ puts[k].state = "failed"
     /\ Len(puts) = 1
     /\ spc = "idle"
     /\ dpc \in {"off", "idle"})
      => frontmatter = puts[k].metaBefore

\* C4 (as claimed): the link and updated fields are removed only after the
\* storage's delete has completed (with a response or a failure).
C4_FieldsRemovedAfterDelete ==
  deletion.fieldsRemoved => deletion.removedWhile # "pending"

\* C5 (as claimed): in the build that deletes pastes, the link and updated
\* fields are not removed when the storage's delete has ended with an error
\* of the storage or a failure of the request.
C5_FieldsKeptOnDeleteError ==
  (usesPastebin /\ deletion.fieldsRemoved)
    => deletion.removedWhile \notin {"error", "network"}

(***************************************************************************)
(* Claims about share links, checked under SpecCodec.                      *)
(***************************************************************************)

\* The key that a link carries (<<>> when it carries none).
KeyOfLink(link) == UriParam(link, <<"k", "e", "y">>)

\* C13 (as claimed): an encrypted share of a document that already carries
\* an encrypted share link writes a link with the key of the link that the
\* document carried.
C13_ReshareReusesKey ==
  \A k \in 1..Len(puts) :
    (/\ puts[k].state = "done"
     /\ ~puts[k].shareUnencrypted
     /\ SendLink \in DOMAIN puts[k].metaBefore
     /\ SendLink \in DOMAIN frontmatter
     /\ frontmatter[SendLink] = puts[k].link)
      => \E before \in {KeyOfLink(puts[k].metaBefore[SendLink])} :
           before # <<>> => KeyOfLink(frontmatter[SendLink]) = before

\* C14 (as claimed): a share of a note for which plain-text sharing is
\* selected (isEncrypted false) hands the raw note text to the storage put
\* and builds a link without encrypted flag and key; a share of a note for
\* which encrypted sharing is selected hands the JSON text of the
\* ciphertext list to the put.
C14_PlainTextShareDoesNotEncrypt ==
  \A k \in 1..Len(puts) :
    /\ ~puts[k].isEncrypted =>
         /\ puts[k].body = encodeURIComponent(TextContent(puts[k].text)).value
         /\ puts[k].state = "done" =>
              /\ UriParam(puts[k].link, <<"e", "n", "c", "r", "y", "p", "t", "e", "d">>) = <<>>
              /\ KeyOfLink(puts[k].link) = <<>>
    /\ puts[k].isEncrypted => puts[k].body.form = "json"

\* The text `part` occurs in the text `link`.
Contains(link, part) ==
  \E i \in 1..(Len(link) - Len(part) + 1) : SubSeq(link, i, i + Len(part) - 1) = part

\* The text `link` ends with the text `part`.
EndsWith(link, part) ==
  /\ Len(link) >= Len(part)
  /\ SubSeq(link, Len(link) - Len(part) + 1, Len(link)) = part

\* C15: the application URL that a share builds holds "&encrypted=true&key="
\* if and only if the share encrypted the note, and then the URL ends with
\* that text and the key under which the chunks of the payload were
\* encrypted that the share put, which is the payload stored under the
\* sendurl of the URL for as long as it is stored.
C15_LinkCarriesKeyOfPayload ==
  \A k \in 1..Len(puts) :
    puts[k].state = "done" =>
      \E link \in {puts[k].link} :
        /\ Contains(link, LinkKey) <=> ~puts[k].shareUnencrypted
        /\ ~puts[k].shareUnencrypted =>
             /\ EndsWith(link, LinkKey \o Expand(puts[k].encryptionKey))
             /\ puts[k].body.form = "json"
             /\ \A n \in 1..Len(puts[k].body.list) :
                  puts[k].body.list[n].key = base64ToArrayBuffer(FromSeq(KeyOfLink(link))).buf
        /\ \E id \in {PasteIdOf(UriParam(link, SendUrlName))} :
             id \in DOMAIN pastes => pastes[id] = puts[k].body

\* C15's case: an encrypted share has built its link and its payload of at
\* least two chunks is stored.
C15_Witness ==
  \E k \in 1..Len(puts) :
    /\ puts[k].state = "done"
    /\ ~puts[k].shareUnencrypted
    /\ Len(puts[k].body.list) >= 2
    /\ PasteIdOf(UriParam(puts[k].link, SendUrlName)) \in DOMAIN pastes

\* C16 (as claimed): while the link that a successful share wrote is in the
\* metadata, it is the value of the link field of the configured prefix, and
\* hasSharedFile sees the document as shared with that link.
C16_LinkInConfiguredField ==
  \A k \in 1..Len(puts) :
    (/\ puts[k].state = "done"
     /\ SendLink \in DOMAIN frontmatter
     /\ frontmatter[SendLink] = puts[k].link)
      => /\ ValueOrNone(frontmatter, field(settings.yamlField, "link")) = puts[k].link
         /\ hasSharedFile(frontmatter, settings.yamlField).matched
         /\ hasSharedFile(frontmatter, settings.yamlField).url = puts[k].link

\* C17 (as claimed): while the link that a share wrote is in the metadata,
\* the metadata holds an updated field that the same share wrote: there is
\* one, and it is not the time that the metadata held before the share.
C17_LinkComesWithUpdated ==
  \A k \in 1..Len(puts) :
    (/\ puts[k].state = "done"
     /\ SendLink \in DOMAIN frontmatter
     /\ frontmatter[SendLink] = puts[k].link)
      => \E updated \in {field(settings.yamlField, "updated")} :
           /\ updated \in DOMAIN frontmatter
           /\ updated \in DOMAIN puts[k].metaBefore
                => frontmatter[updated] # puts[k].metaBefore[updated]

\* C18 (as claimed): when share (and uploadNote) has returned, every put of
\* the shares so far has ended with the link written or with the error: no
\* request is in flight and no response is waiting to be handled.
C18_ShareReturnsAfterPut ==
  spc = "idle" =>
    \A k \in 1..Len(puts) : puts[k].state \in {"done", "failed"}

\* C19 (as claimed): when the put of a share has failed and the share has
\* ended, uploadNote has observed the error: it has shown its error message
\* (no deletion has shown another message since).
C19_PutFailureReachesCaller ==
  \A k \in 1..Len(puts) :
    (puts[k].state = "failed" /\ spc = "idle" /\ dpc \in {"off", "idle"})
      => statusMessage = UploadError

\* C20 (as claimed): a note that the handler creates for a link marked
\* encrypted never holds the fetched payload, the JSON text of the
\* ciphertext list, as its content.
C20_CiphertextNeverStored ==
  (rpc = "created" /\ received.encrypted # <<>>)
    => vault[received.newFilename].form # "json"

\* C21 (as claimed): after a successful share of a note whose metadata held
\* the link of an earlier share, and without any delete, the object of the
\* earlier share is as it was, the object of the new share is stored, and
\* every link field of the metadata holds the new link.
C21_ReshareKeepsEarlierObject ==
  \A k \in 1..Len(puts) :
    (/\ puts[k].state = "done"
     /\ dpc = "off"
     /\ field(settings.yamlField, "link") \in DOMAIN puts[k].metaBefore
     /\ SendLink \in DOMAIN frontmatter
     /\ frontmatter[SendLink] = puts[k].link)
      => /\ PreviousSuffix \in DOMAIN pastes => pastes[PreviousSuffix] = PreviousPaste
         /\ PasteIds[k] \in DOMAIN pastes
         /\ pastes[PasteIds[k]] = puts[k].body
         /\ \A name \in DOMAIN frontmatter :
              name[2] = "link" => frontmatter[name] = puts[k].link

\* C23 (as claimed): the note of a share is encrypted if and only if its
\* property encrypted is checked or neither the setting shareUnencrypted is
\* on nor its property unencrypted is checked; uploadNote selects so, and
\* the content put is the ciphertext list exactly then.
C23_UploadFollowsPrecedence ==
  \A k \in 1..Len(puts) :
    \E decision \in
        {\/ Checked(puts[k].metaBefore, settings.yamlField, "encrypted")
         \/ /\ ~settings.shareUnencrypted
            /\ ~Checked(puts[k].metaBefore, settings.yamlField, "unencrypted")} :
      /\ puts[k].isEncrypted = decision
      /\ puts[k].body.form = "json" <=> decision

\* C24: a delete has no effect until it is confirmed.  While the dialog is
\* open no delete request is out, no object leaves the storage, and the
\* metadata changes only by a step of a share; closing the dialog without a
\* confirmation changes neither the metadata nor the storage and sends no
\* request.  A request is sent only by the confirmation, one for each, and
\* an object leaves the storage only by serving that one request.
C24_DeleteOnlyWhenConfirmed ==
  [][/\ dpc = "confirm" =>
          /\ deletion.outcome = ""
          /\ DOMAIN pastes \subseteq DOMAIN pastes'
          /\ frontmatter' # frontmatter => (puts' # puts \/ spc' # spc)
     /\ (dpc = "confirm" /\ dpc' = "idle") =>
          /\ UNCHANGED <<frontmatter, pastes, noteText>>
          /\ deletion'.outcome = ""
     /\ (deletion'.outcome = "pending" /\ deletion.outcome # "pending") =>
          (dpc = "confirm" /\ dpc' = "requested")
     /\ ~(DOMAIN pastes \subseteq DOMAIN pastes') =>
          /\ deletion.outcome = "pending"
          /\ deletion'.outcome = "ok"
          /\ DOMAIN pastes \ DOMAIN pastes' = {deletion.identifier}]_vars

\* The dialog is open for a link whose object is stored.
C24_Witness ==
  /\ dpc = "confirm"
  /\ hasSharedFile(frontmatter, settings.yamlField).matched
  /\ getIdentifier(usesPastebin, deletion.url) \in DOMAIN pastes
  /\ field(settings.yamlField, "link") \in DOMAIN frontmatter

\* C25: the step of a delete that removes fields removes the fields link
\* and updated of the configured prefix and nothing else: every other field
\* keeps its value and the text of the note is unchanged.  The other steps
\* of a delete change neither the metadata nor the text.
C25_DeleteRemovesLinkAndUpdatedOnly ==
  [][/\ (dpc = "requested" /\ dpc' = "finished") =>
          /\ noteText' = noteText
          /\ DOMAIN frontmatter' =
               DOMAIN frontmatter \ {field(settings.yamlField, "link"),
                                     field(settings.yamlField, "updated")}
          /\ \A name \in DOMAIN frontmatter' : frontmatter'[name] = frontmatter[name]
     /\ ((dpc' # dpc \/ deletion' # deletion) /\ ~(dpc = "requested" /\ dpc' = "finished")) =>
          UNCHANGED <<frontmatter, noteText>>]_vars

\* A delete has removed the link, and another field is left.
C25_Witness ==
  /\ dpc = "finished"
  /\ deletion.fieldsRemoved
  /\ deletion.linkBefore # <<>>
  /\ field(settings.yamlField, "link") \notin DOMAIN frontmatter
  /\ \E name \in DOMAIN frontmatter : name[2] \in {"unencrypted", "encrypted", "link"}

\* C26 (as claimed): copyShareLink shares a note (with the clipboard
\* forced) only when the note holds no share link; for a note that holds a
\* link it puts nothing and copies that link.
C26_CopySharesOnlyWithoutLink ==
  /\ \A k \in 1..Len(puts) :
       puts[k].isForceClipboard =>
         \A name \in DOMAIN puts[k].metaBefore : name[2] # "link"
  /\ note.isForceClipboard =>
       \A name \in DOMAIN note.metaBefore : name[2] # "link"

\* C27 (as claimed): the link of a share is on the clipboard only when the
\* setting clipboard is on or the share was started with forceClipboard.
C27_ClipboardOnlyWhenAsked ==
  \A k \in 1..Len(puts) :
    (puts[k].state = "done" /\ clipboard = puts[k].link)
      => (settings.clipboard \/ puts[k].isForceClipboard)

\* C28 (as claimed): a share whose request was sent before a delete removed
\* the link field (and was pending then) does not write a link to the
\* metadata after that delete.
C28_NoLinkAfterDelete ==
  \A k \in deletion.pendingShares :
    ~(/\ puts[k].state = "done"
      /\ \E name \in DOMAIN frontmatter :
           name[2] = "link" /\ frontmatter[name] = puts[k].link)

\* C29: in every state, a link in a link field of the metadata that holds a
\* key is consistent with the storage: while an object is stored under the
\* identifier of the link's sendurl, that object is a ciphertext list, and
\* each of its chunks was encrypted under the key of the link.
C29_StoredLinkIsSelfConsistent ==
  \A name \in DOMAIN frontmatter :
    name[2] = "link" =>
      \E link \in {frontmatter[name]} :
        Contains(link, LinkKey) =>
          \E id \in {PasteIdOf(UriParam(link, SendUrlName))} :
            id \in DOMAIN pastes =>
              /\ pastes[id].form = "json"
              /\ Len(pastes[id].list) >= 1
              /\ \A n \in 1..Len(pastes[id].list) :
                   pastes[id].list[n].key =
                     base64ToArrayBuffer(FromSeq(KeyOfLink(link))).buf

\* Two shares have run side by side, the response of the first came last
\* and its link, with a key, is in the metadata; both payloads are stored.
C29_Witness ==
  /\ Len(puts) >= 2
  /\ puts[1].state = "done"
  /\ puts[2].state = "done"
  /\ SendLink \in DOMAIN frontmatter
  /\ frontmatter[SendLink] = puts[1].link
  /\ Contains(puts[1].link, LinkKey)
  /\ puts[1].encryptionKey # puts[2].encryptionKey
  /\ PasteIdOf(UriParam(puts[1].link, SendUrlName)) = PasteIds[1]
  /\ {PasteIds[1], PasteIds[2]} \subseteq DOMAIN pastes

\* C30: no step changes or removes a file of the recipient's vault.  The
\* vault changes only when the handler has the response to its request and
\* the object of sendurl is stored, and then by one new file: of the link's
\* file name when the vault holds no file of that name, and else of that
\* name with "-" and a random string put before its ".md".  When the request
\* fails or the object is not stored, the vault is unchanged.
C30_OpenNeverOverwrites ==
  [][/\ \A name \in DOMAIN vault :
          name \in DOMAIN vault' /\ vault'[name] = vault[name]
     /\ vault' # vault =>
          /\ rpc = "fetching" /\ rpc' = "created"
          /\ PasteIdOf(received.sendurl) \in DOMAIN pastes
          /\ \E new \in DOMAIN vault' \ DOMAIN vault :
               /\ DOMAIN vault' = DOMAIN vault \cup {new}
               /\ received.filename \notin DOMAIN vault => new = received.filename
               /\ received.filename \in DOMAIN vault =>
                    /\ EndsWith(received.filename, LinkExtension)
                    /\ \E random \in RandomStrings :
                         new = SubSeq(received.filename, 1, Len(received.filename) - 3)
                                 \o <<"-">> \o random \o LinkExtension
     /\ (rpc = "fetching" /\ PasteIdOf(received.sendurl) \notin DOMAIN pastes) =>
          vault' = vault]_vars

\* The handler has created the note beside the file of the link's name.
C30_Witness ==
  /\ rpc = "created"
  /\ received.filename \in DOMAIN vault
  /\ received.newFilename \in DOMAIN vault
  /\ received.newFilename # received.filename

\* C6 (as claimed): for the application URL that share builds of a storage
\* URL with suffix s, a filename and a 43-character key k,
\* parseExistingShareUrl yields decryptionKey = k and getIdentifier yields s.
C6_ParseRecoversKey ==
  (/\ kpc \in {"identified", "checked"}
   /\ linkInput.kind = "parts"
   /\ ~linkInput.shareUnencrypted)
    => /\ parsed.matched
       /\ parsed.decryptionKey = Expand(linkInput.key)
       /\ identifier = linkInput.suffix

\* C7 (as claimed): for a text that is neither a bare storage link nor an
\* application URL, parseExistingShareUrl returns false, and hasSharedFile
\* treats the document as not shared.
C7_NotALinkParsesToNone ==
  (kpc = "checked" /\ linkInput.kind = "text")
    => (~parsed.matched /\ ~sharedFile.matched)

(***************************************************************************)
(* Claims about the chunk cipher, checked under SpecCrypto.                 *)
(***************************************************************************)

\* C1 (as claimed): for every plaintext p, the empty string and strings with
\* multi-byte and non-BMP characters included, also when such a character
\* straddles a chunk boundary, decryptString(encryptString(p)) returns p.
C1_RoundTrip ==
  (cpc = "decrypted" /\ moved[1] = "same")
    => (decrypted.ok /\ decrypted.value = plaintext)

\* The ciphertext chunks' contents, joined in index order.
CoveredText ==
  LET ciphertext == EncryptedPayload.ciphertext
  IN  Join([n \in 1..Len(ciphertext) |-> ciphertext[n].data], 1, Len(ciphertext))

\* C10: encryptString(p) returns exactly ceil(length(p) / 2000) chunks (none
\* for the empty string), every chunk but the last holds exactly 2000 code
\* units, the last holds the rest, and the chunks together hold the code
\* units of p in order (a surrogate cut off from its partner is held as
\* U+FFFD).
C10_ChunkCount ==
  (cpc = "encrypted" /\ encrypted.ok) =>
    LET ciphertext == EncryptedPayload.ciphertext
        n == Len(ciphertext)
        length == StrLen(plaintext)
    IN  /\ n = (length + chunkSize - 1) \div chunkSize
        /\ \A i \in 1..(n - 1) : StrLen(ciphertext[i].data) = chunkSize
        /\ n > 0 => StrLen(ciphertext[n].data) = length - (n - 1) * chunkSize
        /\ CoveredText.pad = plaintext.pad
        /\ Len(CoveredText.tail) = Len(plaintext.tail)
        /\ \A i \in 1..Len(plaintext.tail) :
             \/ CoveredText.tail[i] = plaintext.tail[i]
             \/ /\ plaintext.tail[i] \in {HighSurrogate, LowSurrogate}
                /\ CoveredText.tail[i] = Replacement

\* C10's case: a plaintext of more than two chunks whose last chunk is
\* shorter than 2000 code units has been encrypted.
C10_Witness ==
  /\ cpc = "encrypted"
  /\ encrypted.ok
  /\ encrypted.chunks >= 3
  /\ StrLen(plaintext) % chunkSize # 0

\* The key bytes a key text decodes to.
KeyBytes(text) == base64ToArrayBuffer(text)

\* C8 (as claimed): decryptString with a key different from the one
\* encryptString returned fails for every non-empty ciphertext list.
C8_OtherKeyFails ==
  (cpc = "decrypted" /\ moved[1] = "key" /\ encrypted.chunks > 0)
    => ~decrypted.ok

\* C8 (amended): decryptString with a key text that decodes to other key
\* bytes than the key of encryptString (or does not decode) fails for every
\* non-empty ciphertext list: with a decryption error when the key imports,
\* with the key's error otherwise.  It never returns a string.
C8_OtherKeyBytesFail ==
  (/\ cpc = "decrypted" /\ moved[1] = "key" /\ encrypted.chunks > 0
   /\ KeyBytes(presentedKey) # KeyBytes(encrypted.key))
    => /\ ~decrypted.ok
       /\ (KeyBytes(presentedKey).ok /\ _getAesGcmKey(KeyBytes(presentedKey).buf))
            => decrypted.err = "DecryptionFailed"

\* C8's case: a non-empty ciphertext list was decrypted under a well-formed
\* 256-bit key of other bytes, and decryption failed.
C8_Witness ==
  /\ cpc = "decrypted" /\ moved[1] = "key" /\ encrypted.chunks > 0
  /\ KeyBytes(presentedKey).ok
  /\ ByteLength(KeyBytes(presentedKey).buf) = 32
  /\ KeyBytes(presentedKey) # KeyBytes(encrypted.key)
  /\ decrypted.err = "DecryptionFailed"

\* C9 (as claimed): in a payload of at least two chunks, a chunk moved from
\* index i to any index j # i makes decryptString fail.
C9_MovedChunkFails ==
  (cpc = "decrypted" /\ moved[1] = "moved") => ~decrypted.ok

\* C9 (amended): a chunk moved from index i to an index j that differs from
\* i modulo 256 makes decryptString fail authentication.
C9_MovedChunkFailsMod256 ==
  (cpc = "decrypted" /\ moved[1] = "moved" /\ moved[2] % 256 # moved[3] % 256)
    => (~decrypted.ok /\ decrypted.err = "DecryptionFailed")

\* C9's case: two chunks of a payload were exchanged and decryption failed.
C9_Witness ==
  /\ cpc = "decrypted" /\ moved[1] = "moved"
  /\ moved[2] % 256 # moved[3] % 256
  /\ encrypted.chunks >= 2
  /\ decrypted.err = "DecryptionFailed"

\* The characters of a key text are all of the standard base64 alphabet.
InAlphabet(text) == \A i \in 1..Len(text.tail) : text.tail[i] \in B64Chars

\* C11 (as claimed): the key that encryptString returns is always exactly 43
\* characters of the standard base64 alphabet, for a fresh key and for any
\* existingKey.
C11_KeyIs43Chars ==
  (cpc \in {"encrypted", "decrypted"} /\ encrypted.ok)
    => (StrLen(encrypted.key) = 43 /\ InAlphabet(encrypted.key))

\* C22 (as claimed): with an existingKey that is not valid base64 or does
\* not decode to 32 bytes, encryptString fails with an error and produces no
\* payload.
C22_BadExistingKeyFails ==
  (/\ cpc \in {"encrypted", "decrypted"}
   /\ StrLen(existingKey) > 0
   /\ (~KeyBytes(existingKey).ok \/ ByteLength(KeyBytes(existingKey).buf) # 32))
    => (~encrypted.ok /\ encrypted.err # "" /\ encrypted.chunks = 0)

=============================================================================
